---- MODULE Spec2Model ----
(***************************************************************************)
(* Orchestration layer of the AI game character generator:                 *)
(*   - the stage pipeline of one character (runFullPipeline in the CLI,    *)
(*     generateSingleCharacter in the batch module) with the retry loops   *)
(*     of generateImage and animateSprite and the submit/poll/fetch        *)
(*     protocol of generateAndRig3DModel;                                  *)
(*   - the batch coordinator runBatchGeneration;                           *)
(*   - the sliding-window RateLimiter.                                     *)
(* Each part has its own specification over the shared variables; the      *)
(* variables of the other parts stay at their idle values.                 *)
(***************************************************************************)
EXTENDS Integers, Sequences, FiniteSets, Bags, TLC

(***************************************************************************)
(* Bounds of the model.                                                    *)
(***************************************************************************)
MaxRetries == 4
MaxAnims == 2
MaxPoll == 2
MaxSeconds == 4
MaxNameLen == 3
MaxPromptLen == 2
MaxItems == 3
MaxConcurrency == 3
NumCallers == 3
MaxTime == 5

\* windowMs of the RateLimiter under test and the requestsPerMinute entries of
\* the two providers with a limit, scaled down
WindowMs == 3
LimitRunway == 1
LimitTripo == 2

AnimKinds == {"idle", "walk"}

(***************************************************************************)
(* Program constants.                                                      *)
(***************************************************************************)
ImageRetryDelay == 1000
VideoRetryDelay == 2000
BipedBoneCount == 25

\* generateAndRig3DModel: pollInterval = 5000
PollInterval == 5000

VARIABLES
  \* ---- one pipeline run ------------------------------------------------
  entry,         \* "cli" (runFullPipeline) or "batch" (generateSingleCharacter)
  cfg,           \* skipAnimation and skipRigging of the run
  animations,    \* config.animations, the requested kinds in request order
  opts,          \* options and API key of the stage function in progress
  pc,            \* position of the run
  failedAt,      \* stage whose error rejected the run ("none" while running)
  attempt,       \* loop variable of the retry loop in progress
  trace,         \* outcomes of the attempts of the retry loop in progress
  sleeps,        \* delays slept by the retry loop in progress
  lastLoop,      \* the retry loop that has just finished, NoLoop otherwise
  imageResult,   \* imageResult.imagePath, "" before the image stage succeeds
  animIdx,       \* index into animations of the kind being animated
  animateCalls,  \* kinds animateSprite has been called with, in call order
  videoResults,  \* results array of createAnimationBatch
  videoThrown,   \* indexes of the kinds whose animateSprite call rejected
  videoLog,      \* per animateSprite call so far, what the call met
  rstep,         \* step of the Tripo protocol in generateAndRig3DModel
  polls,         \* loop variable of waitForTask
  pollSleeps,    \* the sleeps of waitForTask since its loop began
  rigFailure,    \* provider step that raised inside the try block, or "none"
  riggingResult, \* riggingResult of the run
  exportResult,  \* export field of the PipelineResult
  files,         \* content of the files of the output directory
  calls,         \* stages that have made a provider call or an export so far
  metaWrites,    \* completed writes of metadata.json
  \* ---- one batch ---------------------------------------------------------
  bcfg,          \* options of runBatchGeneration
  shape,         \* what the batch configuration object lacks, if anything
  characters,    \* config.characters, the input items in input order
  bpc,           \* position of runBatchGeneration
  rejectedBy,    \* what rejected runBatchGeneration ("none" if nothing did)
  chunks,        \* result of chunkArray(characters, concurrency)
  chunkIdx,      \* index of the chunk whose Promise.all is awaited
  ipc,           \* position of the pipeline run of each item
  ret,           \* value returned by the callback of each item
  results,       \* results array of the batch
  successful,    \* counter successful
  failed,        \* counter failed
  report,        \* content of batch-report.json, NoReport before it is written
  \* ---- the rate limiter ---------------------------------------------------
  now,           \* Date.now()
  queues,        \* RateLimiter.queues: per provider the recorded admissions
  sleepers,      \* the acquire calls that are asleep
  admitted,      \* per provider every admission so far, oldest first
  status,        \* what the getStatus call that has just returned was asked and
                 \* answered, NoStatus otherwise
  \* ---- the cost estimators ----------------------------------------------
  estimate,      \* arguments and return value of the last estimator call
  \* ---- the output directories of the items of a batch --------------------
  naming         \* two characters of one chunk and the paths their runs write

pipeVars == <<entry, cfg, animations, opts, pc, failedAt, attempt, trace, sleeps,
              lastLoop, imageResult, animIdx, animateCalls, videoResults, videoThrown,
              videoLog, rstep, polls, pollSleeps,
                 rigFailure, riggingResult, exportResult, files, calls,
              metaWrites>>

batchVars == <<bcfg, shape, characters, bpc, rejectedBy, chunks, chunkIdx, ipc, ret,
               results, successful, failed, report>>

limVars == <<now, queues, sleepers, admitted, status>>

fnVars == <<estimate, naming>>

vars == <<pipeVars, batchVars, limVars, fnVars>>

(***************************************************************************)
(* Helpers.                                                                *)
(***************************************************************************)
RECURSIVE Pow2(_)
Pow2(n) == IF n <= 0 THEN 1 ELSE 2 * Pow2(n - 1)

SeqsUpTo(S, n) == UNION {[1..m -> S] : m \in 0..n}

\* the delay grows by retryDelay with each attempt
BackoffDelayLinear(retryDelay, att) == retryDelay * att

\* retryDelay * Math.pow(2, attempt - 1)
BackoffDelay(retryDelay, att) == retryDelay * Pow2(att - 1)

EmptyRigging == [modelPath |-> "", riggedModelPath |-> "", boneCount |-> 0]
EmptyExport == [glbPath |-> "", previewPath |-> ""]

FileNames == {"sprite", "base", "rigged", "preview", "metadata"} \cup AnimKinds

NoCalls == {}

Bump(c, f) == c \cup {f}

\* no stage function is running
NoOpts == [provider |-> "none", maxRetries |-> 0, maxPollAttempts |-> 0, key |-> FALSE]

NoLoop == [stage |-> "none", kind |-> "", maxRetries |-> 0, key |-> FALSE,
           trace |-> <<>>, sleeps |-> <<>>, outcome |-> "none"]

(***************************************************************************)
(* Values of the variables of a part that is not running.                  *)
(***************************************************************************)
NoReport == [total |-> -1, successful |-> -1, failed |-> -1, results |-> <<>>]

IdlePipe ==
  /\ entry = "none" /\ cfg = <<>> /\ animations = <<>> /\ opts = NoOpts
  /\ pc = "idle" /\ failedAt = "none" /\ attempt = 0 /\ trace = <<>>
  /\ sleeps = <<>> /\ lastLoop = NoLoop /\ imageResult = "" /\ animIdx = 0
  /\ animateCalls = <<>> /\ videoResults = <<>> /\ videoThrown = {}
  /\ videoLog = <<>>
  /\ rstep = "none" /\ polls = 0 /\ pollSleeps = <<>> /\ rigFailure = "none"
  /\ riggingResult = EmptyRigging /\ exportResult = EmptyExport
  /\ files = <<>> /\ calls = NoCalls /\ metaWrites = 0

\* a BatchConfig with characters, outputDir and a prompt for every character
ShapeOk == [kind |-> "ok", idx |-> 0, named |-> TRUE]

IdleBatch ==
  /\ shape = ShapeOk
  /\ bcfg = <<>> /\ characters = <<>> /\ bpc = "idle" /\ rejectedBy = "none"
  /\ chunks = <<>> /\ chunkIdx = 0 /\ ipc = <<>> /\ ret = <<>>
  /\ results = <<>> /\ successful = 0 /\ failed = 0 /\ report = NoReport

\* no estimator has been called
NoEstimate == [fn |-> "none"]

\* no batch item has been named
NoNaming == [items |-> <<>>, paths |-> <<>>]

IdleEstimate == estimate = NoEstimate /\ naming = NoNaming

NoStatus == [provider |-> "none", used |-> 0, limit |-> 0, resetIn |-> 0]

IdleLimiter ==
  /\ now = 0 /\ queues = <<>> /\ sleepers = <<>> /\ admitted = <<>>
  /\ status = NoStatus

(***************************************************************************)
(* The pipeline of one character.                                          *)
(***************************************************************************)
\* skipAnimation and skipRigging of PipelineOptions / SingleCharacterOptions
Options == [skipAnimation : BOOLEAN, skipRigging : BOOLEAN]

\* what generateImage is called with and finds in process.env: maxRetries and
\* whether the API key of the provider is set
ImageOpts == [provider : {"openai"}, maxRetries : 1..MaxRetries,
              maxPollAttempts : {0}, key : BOOLEAN]

\* the same for animateSprite; the placeholder provider reads no key
VideoOpts == {o \in [provider : {"veo", "placeholder"}, maxRetries : 1..MaxRetries,
                     maxPollAttempts : {0}, key : BOOLEAN] :
                (o.provider = "placeholder") => o.key}

\* the same for generateAndRig3DModel with maxPollAttempts; maxPollAttempts is
\* read only when the Tripo protocol runs
RigOpts == {o \in [provider : {"tripo", "placeholder"}, maxRetries : {0},
                   maxPollAttempts : 1..MaxPoll, key : BOOLEAN] :
              /\ (o.provider = "placeholder") => o.key
              /\ (o.provider = "placeholder" \/ ~o.key) => (o.maxPollAttempts = 1)}

InitPipe ==
  /\ entry \in {"cli", "batch"}
  /\ cfg \in Options
  /\ animations \in SeqsUpTo(AnimKinds, MaxAnims)
  /\ opts = NoOpts
  /\ pc = "start"
  /\ failedAt = "none"
  /\ attempt = 1
  /\ trace = <<>>
  /\ sleeps = <<>>
  /\ lastLoop = NoLoop
  /\ imageResult = ""
  /\ animIdx = 1
  /\ animateCalls = <<>>
  /\ videoResults = <<>>
  /\ videoThrown = {}
  /\ videoLog = <<>>
  /\ rstep = "none"
  /\ polls = 0
  /\ pollSleeps = <<>>
  /\ rigFailure = "none"
  /\ riggingResult = EmptyRigging
  /\ exportResult = EmptyExport
  /\ files = [f \in FileNames |-> "none"]
  /\ calls = NoCalls
  /\ metaWrites = 0
  /\ IdleBatch
  /\ IdleLimiter
  /\ IdleEstimate

\* the loop bound written with < instead of <=
LoopContinuesShort(att, maxRetries) == att < maxRetries

\* for (attempt = 1; attempt <= maxRetries; attempt++)
LoopContinues(att, maxRetries) == att <= maxRetries

\* if (attempt < maxRetries) { await sleep(delay) }
SleepsBeforeRetry(att, maxRetries) == att < maxRetries

\* a finished retry loop: its bound, whether the API key was set, the outcome
\* of each attempt, the delays slept and how the loop ended
LogEntry(stage, kind, tr, sl, outcome) ==
  [stage |-> stage, kind |-> kind, maxRetries |-> opts.maxRetries, key |-> opts.key,
   trace |-> tr, sleeps |-> sl, outcome |-> outcome]

\* the mesh+rig block is placed before the animation block
StageOrderRigFirst == <<"image", "rig", "video", "export", "meta">>

\* the blocks of runFullPipeline / generateSingleCharacter in the order of the
\* text: each awaits its stage function before the next block is entered
StageOrder == <<"image", "video", "rig", "export", "meta">>

\* if (!skipAnimation) { ... }  if (!skipRigging) { rigging; export };
\* createAnimationBatch over no kinds awaits nothing
StageSkipped(stage) ==
  \/ stage = "video" /\ (cfg.skipAnimation \/ animations = <<>>)
  \/ stage \in {"rig", "export"} /\ cfg.skipRigging

\* the position at which a stage is entered
StageEntry(stage) ==
  CASE stage = "image" -> "image"
    [] stage = "video" -> "video_setup"
    [] stage = "rig" -> "rig_mkdir"
    [] stage = "export" -> "export"
    [] stage = "meta" -> "meta"

RECURSIVE EnterFrom(_)
\* the first block from the i-th on that is not skipped
EnterFrom(i) ==
  IF i > Len(StageOrder) THEN "ExportDone"
  ELSE IF StageSkipped(StageOrder[i]) THEN EnterFrom(i + 1)
  ELSE StageEntry(StageOrder[i])

\* where the run goes when the block of a stage is left
After(stage) ==
  EnterFrom(1 + CHOOSE i \in 1..Len(StageOrder) : StageOrder[i] = stage)

\* where the run goes once the video stage is over
AfterVideo == After("video")

\* where the run goes once generateAndRig3DModel has resolved
AfterRig == After("rig")

\* where the run goes once exportForThreeJS has resolved
AfterExport == After("export")

\* createAnimationBatch: for (const animationType of animations)
VideoNext(i) == IF i <= Len(animations) THEN "video_setup" ELSE AfterVideo

\* a rejection of animateSprite ends the loop over the kinds
OnAnimateRejectedBreak(i) == AfterVideo

\* createAnimationBatch: catch { /* Continue with other animations */ }
OnAnimateRejected(i) == VideoNext(i + 1)

\* where the run goes once generateImage has resolved
AfterImage == After("image")

\* the rejection of generateImage is swallowed and the run goes on
OnImageRejectedSwallowed == AfterImage

\* where a rejection of generateImage takes the run
OnImageRejected == "Failed"

\* the options of createAnimationBatch last until its loop over the kinds ends
VideoOptsAt(position, o) == IF position = "video_setup" THEN o ELSE NoOpts

\* runFullPipeline / generateSingleCharacter: await fs.mkdir(outputDir), then
\* the call of generateImage
PipeStart(ok, o) ==
  /\ pc = "start"
  /\ IF ok THEN /\ pc' = "image"
                /\ opts' = o
                /\ failedAt' = failedAt
           ELSE /\ pc' = "Failed"
                /\ opts' = opts
                /\ failedAt' = "setup"
  /\ UNCHANGED <<fnVars, batchVars, limVars, animateCalls, videoLog, entry, cfg, animations, attempt,
                 trace, sleeps, lastLoop, imageResult, animIdx, videoResults,
                 videoThrown, rstep, polls, pollSleeps,
                 rigFailure, riggingResult, exportResult,
                 files, calls, metaWrites>>

\* one iteration of the retry loop of generateImage
ImageAttempt(out) ==
  /\ pc = "image"
  /\ (out = "ok") => opts.key
  /\ calls' = IF opts.key THEN Bump(calls, "image") ELSE calls
  /\ IF out = "ok"
       THEN /\ imageResult' = "sprite.png"
            /\ files' = [files EXCEPT !["sprite"] = "real"]
            /\ lastLoop' = LogEntry("image", "", Append(trace, out), sleeps, "ok")
            /\ pc' = AfterImage
            /\ opts' = NoOpts
            /\ attempt' = 1
            /\ trace' = <<>>
            /\ sleeps' = <<>>
            /\ failedAt' = failedAt
       ELSE LET sl == IF SleepsBeforeRetry(attempt, opts.maxRetries)
                        THEN Append(sleeps, BackoffDelay(ImageRetryDelay, attempt))
                        ELSE sleeps
            IN /\ UNCHANGED <<imageResult, files>>
               /\ IF LoopContinues(attempt + 1, opts.maxRetries)
                    THEN /\ attempt' = attempt + 1
                         /\ trace' = Append(trace, out)
                         /\ sleeps' = sl
                         /\ UNCHANGED <<pc, opts, failedAt, lastLoop>>
                    ELSE /\ lastLoop' = LogEntry("image", "", Append(trace, out), sl, "rejected")
                         /\ pc' = OnImageRejected
                         /\ opts' = NoOpts
                         /\ failedAt' = "image"
                         /\ attempt' = 1
                         /\ trace' = <<>>
                         /\ sleeps' = <<>>
  /\ UNCHANGED <<fnVars, batchVars, limVars, animateCalls, videoLog, entry, cfg, animations, animIdx,
                 videoResults, videoThrown, rstep, polls, pollSleeps,
                 rigFailure, riggingResult,
                 exportResult, metaWrites>>

\* animateSprite before its retry loop: fs.readFile(spritePath), fs.mkdir(animationDir);
\* a rejection is caught by createAnimationBatch, which goes on with the next kind.
\* Every kind is animated with the options createAnimationBatch was called with.
VideoSetup(ok, o) ==
  /\ pc = "video_setup"
  /\ opts = NoOpts \/ o = opts
  /\ animateCalls' = Append(animateCalls, animations[animIdx])
  /\ IF ok THEN /\ pc' = "video_attempt"
                /\ opts' = o
                /\ UNCHANGED <<animIdx, videoThrown, videoLog>>
           ELSE /\ videoThrown' = videoThrown \cup {animIdx}
                /\ videoLog' = Append(videoLog, "setup_failed")
                /\ animIdx' = animIdx + 1
                /\ pc' = OnAnimateRejected(animIdx)
                /\ opts' = VideoOptsAt(OnAnimateRejected(animIdx), o)
  /\ attempt' = 1
  /\ trace' = <<>>
  /\ sleeps' = <<>>
  /\ lastLoop' = NoLoop
  /\ UNCHANGED <<fnVars, batchVars, limVars, entry, cfg, animations, failedAt, imageResult,
                 videoResults, rstep, polls, pollSleeps,
                 rigFailure, riggingResult,
                 exportResult, files, calls, metaWrites>>

VideoResult(kind) == [animationType |-> kind, videoPath |-> kind]

\* animateSprite rethrows the last error once its attempts are used up
OnVideoExhaustedThrow == "throw"

\* animateSprite after its loop: "Fallback to placeholder on failure"
OnVideoExhausted == "placeholder"

\* one iteration of the retry loop of animateSprite; when the loop is exhausted
\* the placeholder video is written (phOk: that write succeeds)
VideoAttempt(out, phOk) ==
  /\ pc = "video_attempt"
  /\ LET kind == animations[animIdx]
         remote == opts.provider # "placeholder"
     IN /\ (out = "ok" /\ remote) => opts.key
        /\ calls' = IF remote /\ opts.key THEN Bump(calls, "video") ELSE calls
        /\ IF out = "ok"
             THEN /\ files' = [files EXCEPT ![kind] = IF remote THEN "real" ELSE "placeholder"]
                  /\ videoResults' = Append(videoResults, VideoResult(kind))
                  /\ videoLog' = Append(videoLog, "ok")
                  /\ lastLoop' = LogEntry("video", kind, Append(trace, out), sleeps, "ok")
                  /\ animIdx' = animIdx + 1
                  /\ pc' = VideoNext(animIdx + 1)
                  /\ opts' = VideoOptsAt(VideoNext(animIdx + 1), opts)
                  /\ attempt' = 1
                  /\ trace' = <<>>
                  /\ sleeps' = <<>>
                  /\ UNCHANGED videoThrown
             ELSE LET sl == IF SleepsBeforeRetry(attempt, opts.maxRetries)
                              THEN Append(sleeps, BackoffDelay(VideoRetryDelay, attempt))
                              ELSE sleeps
                      placed == OnVideoExhausted = "placeholder" /\ phOk
                      next == IF placed THEN VideoNext(animIdx + 1)
                              ELSE OnAnimateRejected(animIdx)
                  IN IF LoopContinues(attempt + 1, opts.maxRetries)
                       THEN /\ attempt' = attempt + 1
                            /\ trace' = Append(trace, out)
                            /\ sleeps' = sl
                            /\ UNCHANGED <<pc, opts, animIdx, videoResults, videoThrown,
                                           videoLog, lastLoop, files>>
                       ELSE /\ animIdx' = animIdx + 1
                            /\ pc' = next
                            /\ opts' = VideoOptsAt(next, opts)
                            /\ attempt' = 1
                            /\ trace' = <<>>
                            /\ sleeps' = <<>>
                            /\ videoLog' = Append(videoLog, IF phOk THEN "exhausted"
                                                            ELSE "exhausted_nowrite")
                            /\ IF placed
                                 THEN /\ files' = [files EXCEPT ![kind] = "placeholder"]
                                      /\ videoResults' = Append(videoResults, VideoResult(kind))
                                      /\ lastLoop' = LogEntry("video", kind, Append(trace, out),
                                                              sl, "placeholder")
                                      /\ UNCHANGED videoThrown
                                 ELSE /\ videoThrown' = videoThrown \cup {animIdx}
                                      /\ lastLoop' = LogEntry("video", kind, Append(trace, out),
                                                              sl, "threw")
                                      /\ UNCHANGED <<videoResults, files>>
  /\ UNCHANGED <<fnVars, batchVars, limVars, animateCalls, entry, cfg, animations, failedAt,
                 imageResult, rstep, polls, pollSleeps,
                 rigFailure, riggingResult, exportResult,
                 metaWrites>>

\* the steps inside the try block of generateAndRig3DModel, in order
RigSteps == <<"createModelTask", "waitModel", "outputModel", "downloadBase",
              "createRigTask", "waitRig", "outputRig", "downloadRigged">>

StepIndex(step) == CHOOSE i \in 1..Len(RigSteps) : RigSteps[i] = step

IsWaitStep(step) == step \in {"waitModel", "waitRig"}

\* what the catch block of generateAndRig3DModel does with an error of the try block
OnRigError == "rig_placeholder"

\* the loop of waitForTask runs once more than maxAttempts
PollAgainInclusive(n, maxAttempts) == n <= maxAttempts

\* waitForTask: for (let attempt = 0; attempt < maxAttempts; attempt++)
PollAgain(n, maxAttempts) == n < maxAttempts

RealModel == [modelPath |-> "base.glb", riggedModelPath |-> "rigged.glb",
              boneCount |-> BipedBoneCount]

\* the RiggingResult returned by createPlaceholderModel
PlaceholderModel == [modelPath |-> "base.glb", riggedModelPath |-> "rigged.glb",
                     boneCount |-> BipedBoneCount]

\* generateAndRig3DModel up to the choice between placeholder and Tripo
RigSetup(ok, o) ==
  /\ pc = "rig_mkdir"
  /\ IF ~ok
       THEN /\ pc' = "Failed"
            /\ failedAt' = "rig"
            /\ UNCHANGED <<opts, rstep, polls, pollSleeps>>
       ELSE /\ failedAt' = failedAt
            /\ IF o.provider = "placeholder" \/ ~o.key
                 THEN /\ pc' = "rig_placeholder"
                      /\ UNCHANGED <<opts, rstep, polls, pollSleeps>>
                 ELSE /\ pc' = "rig_task"
                      /\ opts' = o
                      /\ rstep' = "createModelTask"
                      /\ polls' = 0
                      /\ pollSleeps' = <<>>
  /\ lastLoop' = NoLoop
  /\ UNCHANGED <<fnVars, batchVars, limVars, animateCalls, videoLog, entry, cfg, animations, attempt,
                 trace, sleeps, imageResult, animIdx, videoResults, videoThrown,
                 rigFailure, riggingResult, exportResult, files, calls, metaWrites>>

\* one awaited provider step of the try block of generateAndRig3DModel:
\* task submission, one status poll of waitForTask, getTaskOutput or downloadFile
RigTask(out) ==
  /\ pc = "rig_task"
  /\ out \in (IF IsWaitStep(rstep) THEN {"success", "failed", "error", "pending"}
                                   ELSE {"ok", "fail"})
  /\ calls' = Bump(calls, "rig")
  /\ LET advance == out \in {"ok", "success"}
         timedOut == out = "pending" /\ ~PollAgain(polls + 1, opts.maxPollAttempts)
         raised == out \in {"fail", "failed", "error"} \/ timedOut
         last == rstep = "downloadRigged"
     IN /\ polls' = IF out = "pending" /\ ~timedOut THEN polls + 1 ELSE 0
        \* await sleep(pollInterval) ends every iteration that read a non-terminal status
        /\ pollSleeps' = IF out = "pending" /\ ~timedOut THEN Append(pollSleeps, PollInterval)
                          ELSE <<>>
        /\ rigFailure' = IF ~raised THEN rigFailure
                          ELSE IF timedOut THEN "timeout"
                          ELSE IF out = "failed" THEN "task_failed"
                          ELSE IF IsWaitStep(rstep) THEN "poll_error"
                          ELSE rstep
        /\ files' = IF advance /\ rstep = "downloadBase"
                       THEN [files EXCEPT !["base"] = "real"]
                     ELSE IF advance /\ last
                       THEN [files EXCEPT !["rigged"] = "real"]
                     ELSE files
        /\ riggingResult' = IF advance /\ last THEN RealModel ELSE riggingResult
        /\ pc' = IF raised THEN OnRigError
                  ELSE IF advance /\ last THEN AfterRig
                  ELSE pc
        /\ opts' = IF raised \/ (advance /\ last) THEN NoOpts ELSE opts
        /\ rstep' = IF advance /\ ~last THEN RigSteps[StepIndex(rstep) + 1]
                     ELSE rstep
  /\ UNCHANGED <<fnVars, batchVars, limVars, animateCalls, videoLog, entry, cfg, animations, failedAt,
                 attempt, trace, sleeps, lastLoop, imageResult, animIdx, videoResults,
                 videoThrown, exportResult, metaWrites>>

\* createPlaceholderModel: writeFile(basePath), writeFile(riggedPath)
RigPlaceholder(w) ==
  /\ pc = "rig_placeholder"
  /\ w \in {"ok", "failBase", "failRigged"}
  /\ files' = IF w = "failBase" THEN files
               ELSE IF w = "failRigged" THEN [files EXCEPT !["base"] = "placeholder"]
               ELSE [files EXCEPT !["base"] = "placeholder", !["rigged"] = "placeholder"]
  /\ IF w = "ok" THEN /\ riggingResult' = PlaceholderModel
                     /\ pc' = AfterRig
                     /\ failedAt' = failedAt
                ELSE /\ pc' = "Failed"
                     /\ failedAt' = "rig"
                     /\ UNCHANGED riggingResult
  /\ UNCHANGED <<fnVars, batchVars, limVars, animateCalls, videoLog, entry, cfg, animations, opts,
                 attempt, trace, sleeps, lastLoop, imageResult, animIdx, videoResults,
                 videoThrown, rstep, polls, pollSleeps,
                 rigFailure, exportResult, calls, metaWrites>>

\* the ExportResult returned by exportForThreeJS
ExportReturn(rr) == [glbPath |-> rr.riggedModelPath, previewPath |-> "preview.html"]

\* exportForThreeJS: the writes of preview.html, integration.js, CharacterViewer.tsx;
\* generateSingleCharacter keeps the return value, runFullPipeline drops it
Export(ok) ==
  /\ pc = "export"
  /\ calls' = Bump(calls, "export")
  /\ IF ok THEN /\ files' = [files EXCEPT !["preview"] = "real"]
                /\ exportResult' = IF entry = "batch" THEN ExportReturn(riggingResult)
                                    ELSE exportResult
                /\ pc' = AfterExport
                /\ failedAt' = failedAt
           ELSE /\ pc' = "Failed"
                /\ failedAt' = "export"
                /\ UNCHANGED <<files, exportResult>>
  /\ UNCHANGED <<fnVars, batchVars, limVars, animateCalls, videoLog, entry, cfg, animations, opts,
                 attempt, trace, sleeps, lastLoop, imageResult, animIdx, videoResults,
                 videoThrown, rstep, polls, pollSleeps,
                 rigFailure, riggingResult, metaWrites>>

\* fs.writeFile(metadataPath, JSON.stringify(result)), then return result
MetaWrite(ok) ==
  /\ pc = "meta"
  /\ IF ok THEN /\ files' = [files EXCEPT !["metadata"] = "real"]
                /\ metaWrites' = metaWrites + 1
                /\ pc' = "ExportDone"
                /\ failedAt' = failedAt
           ELSE /\ pc' = "Failed"
                /\ failedAt' = "meta"
                /\ UNCHANGED <<files, metaWrites>>
  /\ lastLoop' = NoLoop
  /\ UNCHANGED <<fnVars, batchVars, limVars, animateCalls, videoLog, entry, cfg, animations, opts,
                 attempt, trace, sleeps, imageResult, animIdx, videoResults,
                 videoThrown, rstep, polls, pollSleeps,
                 rigFailure, riggingResult, exportResult,
                 calls>>

\* the export field of the PipelineResult that the run builds
PipelineResultExport ==
  IF entry = "cli" THEN ExportReturn(riggingResult) ELSE exportResult

NextPipe ==
  \/ \E ok \in BOOLEAN, o \in ImageOpts : PipeStart(ok, o)
  \/ \E out \in {"ok", "fail"} : ImageAttempt(out)
  \/ \E ok \in BOOLEAN, o \in VideoOpts : VideoSetup(ok, o)
  \/ \E out \in {"ok", "fail"}, phOk \in BOOLEAN : VideoAttempt(out, phOk)
  \/ \E ok \in BOOLEAN, o \in RigOpts : RigSetup(ok, o)
  \/ \E out \in {"ok", "fail", "success", "failed", "error", "pending"} : RigTask(out)
  \/ \E w \in {"ok", "failBase", "failRigged"} : RigPlaceholder(w)
  \/ \E ok \in BOOLEAN : Export(ok)
  \/ \E ok \in BOOLEAN : MetaWrite(ok)

SpecPipe == InitPipe /\ [][NextPipe]_vars

Terminal == pc \in {"ExportDone", "Failed"}

(***************************************************************************)
(* The batch coordinator.                                                  *)
(***************************************************************************)
Min(a, b) == IF a <= b THEN a ELSE b

\* array.slice(from, to) for 0 <= from <= to
Slice(array, from, to) == SubSeq(array, from + 1, Min(to, Len(array)))

RECURSIVE ChunkFrom(_, _, _)
ChunkFrom(array, size, i) ==
  IF i < Len(array)
    THEN <<Slice(array, i, i + size)>> \o ChunkFrom(array, size, i + size)
    ELSE <<>>

\* for (let i = 0; i < array.length; i += size) chunks.push(array.slice(i, i + size))
chunkArray(array, size) == ChunkFrom(array, size, 0)

RECURSIVE LoopEndsWithin(_, _, _, _)
\* the loop of chunkArray, run for at most n more iterations from index i,
\* finds i < length false
LoopEndsWithin(length, size, i, n) ==
  IF ~(i < length) THEN TRUE
  ELSE IF n = 0 THEN FALSE
  ELSE LoopEndsWithin(length, size, i + size, n - 1)

\* the loop of chunkArray comes to an end: with an integer step the index that
\* has not passed array.length after array.length iterations never will
ChunkLoopEnds(array, size) == LoopEndsWithin(Len(array), size, 0, Len(array))

BatchOptions == [concurrency : 1..MaxConcurrency, continueOnError : BOOLEAN,
                 skipAnimation : BOOLEAN, skipRigging : BOOLEAN]

NoEntry == [idx |-> 0, success |-> FALSE, result |-> "", error |-> ""]

\* the object returned by the callback after generateSingleCharacter resolved
SuccessEntry(i) == [idx |-> i, success |-> TRUE, result |-> "PipelineResult", error |-> ""]

\* the object returned by the callback after generateSingleCharacter rejected
FailureEntry(i, stage) == [idx |-> i, success |-> FALSE, result |-> "", error |-> stage]

\* validateBatchConfig: false when characters is no array, outputDir is no
\* string or a character has no prompt
validateBatchConfig(sh) == sh.kind = "ok"

\* the callback computes charConfig.name || sanitizeName(charConfig.prompt)
\* before its try block: sanitizeName(undefined) raises a TypeError
CallbackThrows(i) == shape.kind = "no_prompt" /\ shape.idx = i /\ ~shape.named

InitBatch ==
  /\ bcfg \in BatchOptions
  /\ shape = ShapeOk
  /\ characters \in {[i \in 1..n |-> i] : n \in 0..MaxItems}
  /\ bpc = "start"
  /\ rejectedBy = "none"
  /\ chunks = <<>>
  /\ chunkIdx = 0
  /\ ipc = [i \in 1..Len(characters) |-> "pending"]
  /\ ret = [i \in 1..Len(characters) |-> NoEntry]
  /\ results = <<>>
  /\ successful = 0
  /\ failed = 0
  /\ report = NoReport
  /\ IdlePipe
  /\ IdleLimiter
  /\ IdleEstimate

Range(f) == {f[x] : x \in DOMAIN f}

ItemSettled(p) == p \in {"ok", "failed"}

\* the callback of some item of the chunk raises before its first await
ChunkThrows(chunk) == \E i \in Range(chunk) : CallbackThrows(i)

\* the chunk is over as soon as one of its items is
ChunkSettledAny(chunk, positions) == \E i \in Range(chunk) : ItemSettled(positions[i])

\* await Promise.all(chunk.map(...)) resolves when every callback has resolved
ChunkSettled(chunk, positions) == \A i \in Range(chunk) : ItemSettled(positions[i])

\* the callback rethrows whatever continueOnError says
RethrowsAlways(continueOnError) == TRUE

\* if (!continueOnError) throw error
Rethrows(continueOnError) == ~continueOnError

\* the failed entries are left out of the chunk results
ChunkResultsOkOnly(chunk, rets) == SelectSeq([k \in 1..Len(chunk) |-> rets[chunk[k]]],
                                             LAMBDA e : e.success)

\* the array Promise.all resolves to: the callbacks' values in the order of the chunk
ChunkResults(chunk, rets) == [k \in 1..Len(chunk) |-> rets[chunk[k]]]

\* positions after starting the callbacks of a chunk: each runs up to the first
\* await of generateSingleCharacter, fs.mkdir(outputDir)
StartChunk(positions, chunk) ==
  [i \in DOMAIN positions |->
     IF i \notin Range(chunk) THEN positions[i]
     ELSE IF CallbackThrows(i) THEN "threw"
     ELSE "mkdir"]

\* runBatchGeneration up to the first Promise.all
BatchStart(ok) ==
  /\ bpc = "start"
  \* fs.mkdir(undefined) rejects
  /\ ok => shape.kind # "no_outputDir"
  /\ IF shape.kind = "no_characters"
       \* characters.length of the first console.log raises a TypeError
       THEN /\ bpc' = "rejected"
            /\ rejectedBy' = "characters"
            /\ UNCHANGED <<chunks, chunkIdx, ipc>>
       ELSE IF ~ok
       THEN /\ bpc' = "rejected"
            /\ rejectedBy' = "mkdir"
            /\ UNCHANGED <<chunks, chunkIdx, ipc>>
       ELSE IF ~ChunkLoopEnds(characters, bcfg.concurrency)
       \* chunkArray never returns: the loop pushes chunks until the heap is used up
       THEN /\ bpc' = "hung"
            /\ UNCHANGED <<rejectedBy, chunks, chunkIdx, ipc>>
       ELSE LET cs == chunkArray(characters, bcfg.concurrency)
            IN /\ chunks' = cs
               /\ IF cs = <<>>
                    THEN /\ bpc' = "report"
                         /\ rejectedBy' = rejectedBy
                         /\ UNCHANGED <<chunkIdx, ipc>>
                    ELSE /\ bpc' = IF ChunkThrows(cs[1]) THEN "rejected" ELSE "chunk"
                         /\ rejectedBy' = IF ChunkThrows(cs[1]) THEN "callback"
                                          ELSE rejectedBy
                         /\ chunkIdx' = 1
                         /\ ipc' = StartChunk(ipc, cs[1])
  /\ UNCHANGED <<fnVars, pipeVars, limVars, bcfg, shape, characters, ret, results, successful,
                 failed, report>>

\* the rejection of runBatchGeneration stops the runs still in flight
CancelledOnReject(position) == position = "rejected"

\* the rejection of Promise.all leaves the other callbacks running: nothing in
\* runBatchGeneration or generateSingleCharacter can cancel a run
Cancelled(position) == FALSE

\* the stage generateSingleCharacter awaits after the given one has resolved
ItemNext(stage) ==
  LET afterVideo == IF bcfg.skipRigging THEN "meta" ELSE "rig"
  IN CASE stage = "mkdir" -> "image"
       [] stage = "image" -> IF bcfg.skipAnimation THEN afterVideo ELSE "video"
       [] stage = "video" -> afterVideo
       [] stage = "rig" -> "export"
       [] stage = "export" -> "meta"
       [] stage = "meta" -> "ok"

\* one awaited stage of generateSingleCharacter for item i resolves (ok) or
\* rejects; when the run ends, the callback of runBatchGeneration counts it,
\* and when it was the last run of the chunk the loop goes on
ItemStep(i, ok) ==
  /\ ipc[i] \notin {"pending", "ok", "failed", "threw"}
  /\ ~Cancelled(bpc)
  \* createAnimationBatch catches every error of the video stage
  /\ (ipc[i] = "video") => ok
  /\ LET stage == ipc[i]
         pos == IF ok THEN ItemNext(stage) ELSE "failed"
         positions == [ipc EXCEPT ![i] = pos]
         thrown == pos = "failed" /\ Rethrows(bcfg.continueOnError)
         rets == IF pos = "ok" THEN [ret EXCEPT ![i] = SuccessEntry(i)]
                 ELSE IF pos = "failed" /\ ~thrown
                   THEN [ret EXCEPT ![i] = FailureEntry(i, stage)]
                 ELSE ret
         chunk == chunks[chunkIdx]
         over == /\ bpc = "chunk"
                 /\ ~thrown
                 /\ i \in Range(chunk)
                 /\ ChunkSettled(chunk, positions)
     IN /\ successful' = IF pos = "ok" THEN successful + 1 ELSE successful
        /\ failed' = IF pos = "failed" THEN failed + 1 ELSE failed
        /\ ret' = rets
        /\ IF thrown /\ bpc = "chunk"
             THEN /\ bpc' = "rejected"
                  /\ rejectedBy' = "item"
                  /\ ipc' = positions
                  /\ UNCHANGED <<results, chunkIdx>>
             ELSE IF over
               THEN /\ results' = results \o ChunkResults(chunk, rets)
                    /\ IF chunkIdx < Len(chunks)
                         THEN LET throws == ChunkThrows(chunks[chunkIdx + 1])
                              IN /\ chunkIdx' = chunkIdx + 1
                                 /\ ipc' = StartChunk(positions, chunks[chunkIdx + 1])
                                 /\ bpc' = IF throws THEN "rejected" ELSE bpc
                                 /\ rejectedBy' = IF throws THEN "callback" ELSE rejectedBy
                         ELSE /\ bpc' = "report"
                              /\ rejectedBy' = rejectedBy
                              /\ ipc' = positions
                              /\ chunkIdx' = chunkIdx
               ELSE /\ ipc' = positions
                    /\ UNCHANGED <<bpc, rejectedBy, results, chunkIdx>>
  /\ UNCHANGED <<fnVars, pipeVars, limVars, bcfg, shape, characters, chunks, report>>

\* the summary object of runBatchGeneration
Summary == [total |-> Len(characters), successful |-> successful,
            failed |-> failed, results |-> results]

\* fs.writeFile(reportPath, JSON.stringify(summary)), then return summary
ReportWrite(ok) ==
  /\ bpc = "report"
  /\ IF ok THEN /\ report' = Summary
                /\ bpc' = "resolved"
                /\ rejectedBy' = rejectedBy
           ELSE /\ bpc' = "rejected"
                /\ rejectedBy' = "report"
                /\ report' = report
  /\ UNCHANGED <<fnVars, pipeVars, limVars, bcfg, shape, characters, chunks, chunkIdx, ipc, ret,
                 results, successful, failed>>

NextBatch ==
  \/ \E ok \in BOOLEAN : BatchStart(ok)
  \/ \E i \in DOMAIN ipc, ok \in BOOLEAN : ItemStep(i, ok)
  \/ \E ok \in BOOLEAN : ReportWrite(ok)

SpecBatch == InitBatch /\ [][NextBatch]_vars

\* runBatchGeneration for an accepted configuration, every awaited call coming
\* back: the fs calls of runBatchGeneration and the stages of every started run
SpecBatchLive ==
  /\ InitBatch
  /\ [][NextBatch]_vars
  /\ WF_vars(NextBatch)

\* the concurrency values a caller can pass: options.concurrency is not checked
BatchOptionsAny == [concurrency : (-1)..MaxConcurrency, continueOnError : BOOLEAN,
                    skipAnimation : BOOLEAN, skipRigging : BOOLEAN]

\* the configuration objects JSON.parse of loadBatchConfig can hand over for n
\* characters: nothing checks them before runBatchGeneration
Shapes(n) ==
  {ShapeOk}
    \cup {[kind |-> "no_outputDir", idx |-> 0, named |-> TRUE]}
    \cup {[kind |-> "no_characters", idx |-> 0, named |-> TRUE] : z \in {0} \cap {n}}
    \cup {[kind |-> "no_prompt", idx |-> i, named |-> b] : i \in 1..n, b \in BOOLEAN}

\* runBatchGeneration called with any configuration object and any options
InitBatchAny ==
  /\ bcfg \in BatchOptionsAny
  /\ characters \in {[i \in 1..n |-> i] : n \in 0..MaxItems}
  /\ shape \in Shapes(Len(characters))
  /\ bpc = "start"
  /\ rejectedBy = "none"
  /\ chunks = <<>>
  /\ chunkIdx = 0
  /\ ipc = [i \in 1..Len(characters) |-> "pending"]
  /\ ret = [i \in 1..Len(characters) |-> NoEntry]
  /\ results = <<>>
  /\ successful = 0
  /\ failed = 0
  /\ report = NoReport
  /\ IdlePipe
  /\ IdleLimiter
  /\ IdleEstimate

\* every awaited call comes back: the fs calls of runBatchGeneration and the
\* stages of every run that has started
SpecBatchAny ==
  /\ InitBatchAny
  /\ [][NextBatch]_vars
  /\ WF_vars(\E ok \in BOOLEAN : BatchStart(ok))
  /\ WF_vars(\E ok \in BOOLEAN : ReportWrite(ok))
  /\ \A i \in 1..MaxItems :
        WF_vars(i \in DOMAIN ipc /\ \E ok \in BOOLEAN : ItemStep(i, ok))

(***************************************************************************)
(* The rate limiter.                                                       *)
(***************************************************************************)
\* RATE_LIMITS[provider].requestsPerMinute; "local" has no entry
RATE_LIMITS == [runway |-> LimitRunway, tripo |-> LimitTripo]

Providers == {"runway", "tripo", "local"}

HasLimits(provider) == provider \in DOMAIN RATE_LIMITS

\* the old entries are never dropped from the queue
ValidQueueNoPurge(queue, t) == queue

\* queue.filter(t => now - t < this.windowMs)
ValidQueue(queue, t) == SelectSeq(queue, LAMBDA e : t - e < WindowMs)

\* a caller is made to wait only when the window holds more than the limit
MustWaitAbove(validQueue, limit) == Len(validQueue) > limit

\* if (validQueue.length >= limits.requestsPerMinute)
MustWait(validQueue, limit) == Len(validQueue) >= limit

\* this.windowMs - (now - oldestEntry)
WaitTime(validQueue, t) == WindowMs - (t - validQueue[1])

\* the acquire calls waiting in this.sleep(waitTime): a bag of
\* [provider, wakeAt], one copy per waiting call
Sleeper(provider, wakeAt) == [provider |-> provider, wakeAt |-> wakeAt]

InitLimiter ==
  /\ now = 0
  /\ queues = [p \in DOMAIN RATE_LIMITS |-> <<>>]
  /\ sleepers = EmptyBag
  /\ admitted = [p \in DOMAIN RATE_LIMITS |-> <<>>]
  /\ status = NoStatus
  /\ IdlePipe
  /\ IdleBatch
  /\ IdleEstimate

\* the synchronous body of acquire(provider), run at time now by a call that
\* leaves the calls in `waiting` asleep
AcquireBody(provider, waiting) ==
  IF ~HasLimits(provider)
    THEN /\ sleepers' = waiting
         /\ UNCHANGED <<queues, admitted>>
    ELSE LET validQueue == ValidQueue(queues[provider], now)
         IN IF MustWait(validQueue, RATE_LIMITS[provider])
              THEN /\ sleepers' = waiting (+)
                         SetToBag({Sleeper(provider, now + WaitTime(validQueue, now))})
                   /\ UNCHANGED <<queues, admitted>>
              ELSE /\ queues' = [queues EXCEPT ![provider] = Append(validQueue, now)]
                   /\ admitted' = [admitted EXCEPT ![provider] = Append(@, now)]
                   /\ sleepers' = waiting

\* a caller calls limiter.acquire(provider); at most NumCallers calls are
\* pending at a time
Acquire(provider) ==
  /\ BagCardinality(sleepers) < NumCallers
  /\ AcquireBody(provider, sleepers)
  /\ status' = NoStatus
  /\ UNCHANGED <<fnVars, pipeVars, batchVars, now>>

\* the timer of this.sleep(waitTime) fires and the call runs acquire again
Wake(s) ==
  /\ BagIn(s, sleepers)
  /\ now >= s.wakeAt
  /\ AcquireBody(s.provider, sleepers (-) SetToBag({s}))
  /\ status' = NoStatus
  /\ UNCHANGED <<fnVars, pipeVars, batchVars, now>>

\* time passes
Tick ==
  /\ now < MaxTime
  /\ now' = now + 1
  /\ status' = NoStatus
  /\ UNCHANGED <<fnVars, pipeVars, batchVars, queues, sleepers, admitted>>

\* getStatus stores the purged queue
StatusKeepsPurged(queue, validQueue) == validQueue

\* getStatus only reads this.queues: the stored queue stays as it was
StatusKeeps(queue, validQueue) == queue

Infinity == -1

Max(a, b) == IF a >= b THEN a ELSE b

\* the object returned by getStatus(provider) at time t for the stored queue
StatusOf(provider, queue, t) ==
  IF ~HasLimits(provider)
    THEN [provider |-> provider, used |-> 0, limit |-> Infinity, resetIn |-> 0]
    ELSE LET validQueue == ValidQueue(queue, t)
             \* validQueue[0] || now
             oldestEntry == IF validQueue = <<>> THEN t ELSE validQueue[1]
         IN [provider |-> provider, used |-> Len(validQueue),
             limit |-> RATE_LIMITS[provider],
             resetIn |-> Max(0, WindowMs - (t - oldestEntry))]

\* a call of limiter.getStatus(provider)
GetStatus(provider) ==
  /\ status' = StatusOf(provider, IF HasLimits(provider) THEN queues[provider] ELSE <<>>, now)
  /\ queues' = [p \in DOMAIN queues |->
                  IF p = provider
                    THEN StatusKeeps(queues[p], ValidQueue(queues[p], now))
                    ELSE queues[p]]
  /\ UNCHANGED <<fnVars, pipeVars, batchVars, now, sleepers, admitted>>

NextLimiter ==
  \/ \E provider \in Providers : Acquire(provider)
  \/ \E s \in BagToSet(sleepers) : Wake(s)
  \/ Tick

SpecLimiter == InitLimiter /\ [][NextLimiter]_vars

(***************************************************************************)
(* The rate limiter with finitely many calls and timers that fire when due: *)
(* calls of acquire are made up to MaxTime, and the clock goes on until the *)
(* calls that are asleep have been served.                                  *)
(***************************************************************************)
\* long enough for the calls pending at MaxTime to be admitted one window
\* after the other
Horizon == MaxTime + (NumCallers + 1) * WindowMs

\* a call of acquire made while callers still arrive
Arrive(provider) ==
  /\ now < MaxTime
  /\ Acquire(provider)

\* setTimeout: the clock does not pass a timer that is due
TickDue ==
  /\ now < Horizon
  /\ now < MaxTime \/ sleepers # EmptyBag
  /\ \A s \in BagToSet(sleepers) : s.wakeAt > now
  /\ now' = now + 1
  /\ status' = NoStatus
  /\ UNCHANGED <<fnVars, pipeVars, batchVars, queues, sleepers, admitted>>

WakeDue == \E s \in BagToSet(sleepers) : Wake(s)

NextLimiterLive ==
  \/ \E provider \in Providers : Arrive(provider)
  \/ WakeDue
  \/ TickDue

\* time advances and a timer that is due fires
SpecLimiterLive ==
  InitLimiter /\ [][NextLimiterLive]_vars /\ WF_vars(TickDue) /\ WF_vars(WakeDue)

\* the limiter with getStatus called in between the acquire calls
NextStatus ==
  \/ NextLimiterLive
  \/ \E provider \in Providers : GetStatus(provider)

SpecStatus == InitLimiter /\ [][NextStatus]_vars

(***************************************************************************)
(* The cost estimators. Amounts are in thousandths of a dollar.            *)
(***************************************************************************)
\* const PRICING, the entries the estimators read
PRICING == [openai |-> [standard |-> 40, hd |-> 80],
            stability |-> [sd3 |-> 25],
            google |-> [veo31 |-> 50],
            runway |-> [gen3alpha |-> 100],
            tripo |-> [imageTo3d |-> 150, rigging |-> 100]]

\* estimateImageGenCost
estimateImageGenCost(provider, count, quality) ==
  LET unitPrice == CASE provider = "openai" ->
                            IF quality = "hd" THEN PRICING.openai.hd
                                              ELSE PRICING.openai.standard
                     [] provider = "stability" -> PRICING.stability.sd3
                     [] provider = "pixellab" -> 20
  IN [provider |-> provider, units |-> count, unitPrice |-> unitPrice,
      estimatedCost |-> count * unitPrice]

\* the seconds of one animation are charged whatever the number of animations
TotalSecondsOnce(durationSeconds, animationCount) == durationSeconds

\* const totalSeconds = durationSeconds * animationCount
TotalSeconds(durationSeconds, animationCount) == durationSeconds * animationCount

\* estimateVideoCost
estimateVideoCost(provider, durationSeconds, animationCount) ==
  LET unitPrice == CASE provider = "veo" -> PRICING.google.veo31
                     [] provider = "runway" -> PRICING.runway.gen3alpha
                     [] provider = "placeholder" -> 0
      totalSeconds == TotalSeconds(durationSeconds, animationCount)
  IN [provider |-> provider, units |-> totalSeconds, unitPrice |-> unitPrice,
      estimatedCost |-> totalSeconds * unitPrice]

\* estimateRiggingCost
estimateRiggingCost(provider) ==
  LET cost == CASE provider = "tripo" -> PRICING.tripo.imageTo3d + PRICING.tripo.rigging
                [] provider = "placeholder" -> 0
  IN [provider |-> provider, units |-> 1, unitPrice |-> cost, estimatedCost |-> cost]

\* interface PipelineEstimateOptions
PipelineEstimateOptions ==
  [imageProvider : {"openai", "stability", "pixellab"},
   videoProvider : {"veo", "runway", "placeholder"},
   riggingProvider : {"tripo", "placeholder"},
   animationCount : 0..MaxAnims,
   animationDuration : 1..MaxSeconds,
   imageQuality : {"standard", "hd"}]

\* estimatePipelineCost
estimatePipelineCost(options) ==
  LET imageGen == estimateImageGenCost(options.imageProvider, 1, options.imageQuality)
      videoGen == estimateVideoCost(options.videoProvider, options.animationDuration,
                                    options.animationCount)
      rigging == estimateRiggingCost(options.riggingProvider)
  IN [imageGeneration |-> imageGen,
      videoAnimation |-> videoGen,
      rigging3D |-> rigging,
      total |-> imageGen.estimatedCost + videoGen.estimatedCost + rigging.estimatedCost,
      currency |-> "USD"]

\* estimateBatchCost
estimateBatchCost(characterCount, options) ==
  LET perCharacter == estimatePipelineCost(options)
  IN [perCharacter |-> perCharacter, total |-> perCharacter.total * characterCount]

InitEstimate ==
  /\ estimate = NoEstimate
  /\ naming = NoNaming
  /\ IdlePipe
  /\ IdleBatch
  /\ IdleLimiter

\* the calls considered: a first call with any arguments, then one more call
\* with the same arguments
CallAllowed(fn, characterCount, options) ==
  \/ estimate = NoEstimate
  \/ /\ estimate.fn = fn /\ estimate.nth = 1
     /\ estimate.characterCount = characterCount /\ estimate.options = options

Nth == IF estimate = NoEstimate THEN 1 ELSE 2

\* a call of estimatePipelineCost(options)
EstimatePipeline(options) ==
  /\ CallAllowed("estimatePipelineCost", 1, options)
  /\ estimate' = [fn |-> "estimatePipelineCost", nth |-> Nth,
                  options |-> options, characterCount |-> 1,
                  perCharacter |-> estimatePipelineCost(options),
                  total |-> estimatePipelineCost(options).total]
  /\ UNCHANGED <<pipeVars, batchVars, limVars, naming>>

\* a call of estimateBatchCost(characterCount, options)
EstimateBatch(characterCount, options) ==
  /\ CallAllowed("estimateBatchCost", characterCount, options)
  /\ estimate' = [fn |-> "estimateBatchCost", nth |-> Nth, options |-> options,
                  characterCount |-> characterCount,
                  perCharacter |-> estimateBatchCost(characterCount, options).perCharacter,
                  total |-> estimateBatchCost(characterCount, options).total]
  /\ UNCHANGED <<pipeVars, batchVars, limVars, naming>>

NextEstimate ==
  \/ \E options \in PipelineEstimateOptions : EstimatePipeline(options)
  \/ \E characterCount \in 0..MaxItems, options \in PipelineEstimateOptions :
       EstimateBatch(characterCount, options)

SpecEstimate == InitEstimate /\ [][NextEstimate]_vars

(***************************************************************************)
(* The output directory of a batch item. Strings are sequences of          *)
(* characters.                                                             *)
(***************************************************************************)
\* the characters of the names and prompts considered
NameChars == {"a", ".", "/"}
PromptChars == {"a", "A", " ", "!"}

\* String.prototype.toLowerCase on one character
toLowerCase(c) == IF c = "A" THEN "a" ELSE c

\* [a-z0-9]
IsLowerAlnum(c) == c = "a"

RECURSIVE ReplaceRuns(_, _)
\* .replace(/[^a-z0-9]+/g, '_'): every maximal run of other characters becomes
\* one underscore (inRun: the character before belonged to such a run)
ReplaceRuns(str, inRun) ==
  IF str = <<>> THEN <<>>
  ELSE IF IsLowerAlnum(Head(str)) THEN <<Head(str)>> \o ReplaceRuns(Tail(str), FALSE)
  ELSE IF inRun THEN ReplaceRuns(Tail(str), TRUE)
  ELSE <<"_">> \o ReplaceRuns(Tail(str), TRUE)

\* sanitizeName: prompt.toLowerCase().replace(/[^a-z0-9]+/g, '_').slice(0, 30)
sanitizeName(prompt) ==
  LET lower == [k \in 1..Len(prompt) |-> toLowerCase(prompt[k])]
      replaced == ReplaceRuns(lower, FALSE)
  IN SubSeq(replaced, 1, Min(30, Len(replaced)))

\* charConfig.name || sanitizeName(charConfig.prompt): the empty name is falsy
CharName(charConfig) ==
  IF charConfig.name # <<>> THEN charConfig.name ELSE sanitizeName(charConfig.prompt)

RECURSIVE SplitPath(_, _)
\* the segments of a path between its slashes (seg: the segment being read)
SplitPath(str, seg) ==
  IF str = <<>> THEN <<seg>>
  ELSE IF Head(str) = "/" THEN <<seg>> \o SplitPath(Tail(str), <<>>)
  ELSE SplitPath(Tail(str), Append(seg, Head(str)))

RECURSIVE NormalizeSegments(_, _)
\* path.normalize on the segments of a relative path: empty and "." segments
\* are dropped, ".." removes the segment before it unless there is none or it
\* is ".." itself
NormalizeSegments(segs, done) ==
  IF segs = <<>> THEN done
  ELSE LET seg == Head(segs)
       IN IF seg = <<>> \/ seg = <<".">>
            THEN NormalizeSegments(Tail(segs), done)
          ELSE IF seg = <<".", ".">> /\ done # <<>> /\ done[Len(done)] # <<".", ".">>
            THEN NormalizeSegments(Tail(segs), SubSeq(done, 1, Len(done) - 1))
          ELSE NormalizeSegments(Tail(segs), Append(done, seg))

\* path.join(dir, name) for a normalized relative dir, as the list of segments
pathJoin(dir, name) == NormalizeSegments(dir \o SplitPath(name, <<>>), <<>>)

\* outputDir of the batch configuration
BatchOutputDir == <<<<"o", "u", "t">>>>

\* the file of metadata.json
MetadataFile == <<"m", "e", "t", "a">>

\* the outputDir handed to generateSingleCharacter
ItemOutputDir(charConfig) == pathJoin(BatchOutputDir, CharName(charConfig))

\* path.join(outputDir, 'metadata.json') of generateSingleCharacter
MetadataPath(charConfig) == pathJoin(ItemOutputDir(charConfig), MetadataFile)

\* the characters considered: with an explicit name (the prompt then plays no
\* part in the name) or without one
CharConfigs ==
  {[name |-> n, prompt |-> <<"a">>] : n \in SeqsUpTo(NameChars, MaxNameLen) \ {<<>>}}
    \cup {[name |-> <<>>, prompt |-> q] : q \in SeqsUpTo(PromptChars, MaxPromptLen)}

NoPath == <<<<"?">>>>

\* two characters of the same chunk of a batch
InitNaming ==
  /\ naming \in {[items |-> <<c1, c2>>, paths |-> <<NoPath, NoPath>>] :
                   c1 \in CharConfigs, c2 \in CharConfigs}
  /\ estimate = NoEstimate
  /\ IdlePipe
  /\ IdleBatch
  /\ IdleLimiter

\* the run of item i writes its metadata file
WriteItem(i) ==
  /\ naming.paths[i] = NoPath
  /\ naming' = [naming EXCEPT !.paths[i] = MetadataPath(naming.items[i])]
  /\ UNCHANGED <<pipeVars, batchVars, limVars, estimate>>

NextNaming == \E i \in 1..2 : WriteItem(i)

SpecNaming == InitNaming /\ [][NextNaming]_vars

(***************************************************************************)
(* Properties of the pipeline (checked under SpecPipe).                    *)
(***************************************************************************)
\* position of the first successful attempt of a retry loop, 0 when none
FirstOk(tr) ==
  IF \E i \in 1..Len(tr) : tr[i] = "ok"
    THEN CHOOSE i \in 1..Len(tr) : tr[i] = "ok" /\ \A j \in 1..(i - 1) : tr[j] # "ok"
    ELSE 0

RetryLoopRunning == pc \in {"image", "video_attempt"}

\* C1: a retry loop with maxAttempts = k whose provider client fails on every
\* call makes exactly k attempts before generateImage rejects or animateSprite
\* substitutes the placeholder, and a loop whose first successful attempt is
\* attempt j makes exactly j attempts and none after it.
C1_ExactlyKAttempts ==
  /\ (lastLoop # NoLoop) =>
        /\ Len(lastLoop.trace) \in 1..lastLoop.maxRetries
        /\ (lastLoop.outcome = "ok") <=> (FirstOk(lastLoop.trace) # 0)
        /\ (lastLoop.outcome = "ok") => (FirstOk(lastLoop.trace) = Len(lastLoop.trace))
        /\ (lastLoop.outcome # "ok") => (Len(lastLoop.trace) = lastLoop.maxRetries)
        /\ (lastLoop.stage = "image") => (lastLoop.outcome \in {"ok", "rejected"})
        /\ (lastLoop.stage = "video") => (lastLoop.outcome \in {"ok", "placeholder", "threw"})
  /\ RetryLoopRunning =>
        (FirstOk(trace) = 0 /\ Len(trace) = attempt - 1 /\ attempt <= opts.maxRetries)
  /\ (failedAt = "image") => (lastLoop.stage = "image" /\ lastLoop.outcome = "rejected")

\* every attempt of a video loop with the largest bound failed and the
\* placeholder was substituted
C1_Witness ==
  /\ lastLoop.stage = "video"
  /\ lastLoop.outcome = "placeholder"
  /\ lastLoop.maxRetries = MaxRetries
  /\ Len(lastLoop.trace) = MaxRetries
  /\ Len(lastLoop.sleeps) = MaxRetries - 1

ImageStageFailed == lastLoop.stage = "image" /\ lastLoop.outcome = "rejected"

\* C2: when the image stage fails after its retries, no video, mesh/rig or
\* export call is made, no video, mesh or export result is produced, and the
\* run is in the terminal state Failed.
C2_ImageFailureAborts ==
  (ImageStageFailed \/ failedAt = "image") =>
    /\ pc = "Failed"
    /\ calls \cap {"video", "rig", "export"} = {}
    /\ animateCalls = <<>>
    /\ videoResults = <<>>
    /\ riggingResult = EmptyRigging
    /\ exportResult = EmptyExport
    /\ \A f \in FileNames \ {"sprite"} : files[f] = "none"

C2_Witness ==
  /\ ImageStageFailed
  /\ pc = "Failed"
  /\ lastLoop.maxRetries = MaxRetries
  /\ ~cfg.skipAnimation /\ ~cfg.skipRigging /\ Len(animations) = MaxAnims
  /\ "image" \in calls

\* C7: every run that reaches ExportDone, and every run that ends Failed
\* because its image stage failed, has written metadata.json exactly once.
C7_MetadataWrittenOnce ==
  (pc = "ExportDone" \/ (pc = "Failed" /\ failedAt = "image")) => (metaWrites = 1)

\* C8: once the image stage has succeeded, no failure in the video, mesh/rig
\* or export stage makes the run end Failed.
C8_FailedOnlyFromImage ==
  (pc = "Failed" /\ imageResult # "") => (failedAt \notin {"video", "rig", "export"})

\* C9: when the mesh provider fails at a step of the mesh+rig stage, the stage
\* returns the placeholder model instead of raising and the run ends ExportDone.
C9_MeshFailureFallsBack ==
  (rigFailure # "none" /\ Terminal) =>
    (pc = "ExportDone" /\ riggingResult = PlaceholderModel /\ files["rigged"] = "placeholder")

IsPrefix(a, b) == Len(a) <= Len(b) /\ \A i \in 1..Len(a) : a[i] = b[i]

VideoStagePositions == {"video_setup", "video_attempt"}

\* the requested kinds whose animateSprite call did not reject, in request order
RECURSIVE KeptKinds(_)
KeptKinds(n) ==
  IF n = 0 THEN <<>>
  ELSE IF n \in videoThrown THEN KeptKinds(n - 1)
  ELSE Append(KeptKinds(n - 1), animations[n])

VideoStageOver ==
  imageResult # "" /\ ~cfg.skipAnimation /\ pc \notin ({"image"} \cup VideoStagePositions)

BaseDelay(stage) == IF stage = "image" THEN ImageRetryDelay ELSE VideoRetryDelay

\* the delays d, 2d, 4d, ... : the first is d and each next one is the double
Doubling(sl, d) ==
  /\ (sl # <<>>) => (sl[1] = d)
  /\ \A i \in 1..(Len(sl) - 1) : sl[i + 1] = 2 * sl[i] /\ sl[i + 1] > sl[i]

\* C12: in a retry loop with base delay d and maxAttempts = k the sleep after
\* failed attempt i < k is d * 2^(i-1); a loop whose attempts all failed has
\* slept k-1 times, and there is no sleep after the last failed attempt or
\* after a success.
C12_BackoffDoubles ==
  /\ (lastLoop # NoLoop) =>
        /\ Doubling(lastLoop.sleeps, BaseDelay(lastLoop.stage))
        /\ Len(lastLoop.sleeps) = Len(lastLoop.trace) - 1
        /\ (lastLoop.outcome # "ok") => (Len(lastLoop.sleeps) = lastLoop.maxRetries - 1)
  /\ RetryLoopRunning =>
        /\ Doubling(sleeps, IF pc = "image" THEN ImageRetryDelay ELSE VideoRetryDelay)
        /\ Len(sleeps) = Len(trace)
        /\ Len(sleeps) < opts.maxRetries

\* an image loop that failed four times and slept 1000, 2000, 4000 in between
C12_Witness ==
  /\ lastLoop.stage = "image"
  /\ lastLoop.outcome = "rejected"
  /\ lastLoop.maxRetries = 4
  /\ lastLoop.sleeps = <<ImageRetryDelay, 2 * ImageRetryDelay, 4 * ImageRetryDelay>>

\* C13: when the API key of the selected provider is not set, the stage fails
\* at once: the provider call path is entered at most once, there is no
\* backoff sleep and no retry whatever maxAttempts is, and a missing image key
\* aborts the run.
C13_MissingKeyNoRetry ==
  /\ (lastLoop # NoLoop /\ ~lastLoop.key) =>
        /\ Len(lastLoop.trace) <= 1
        /\ lastLoop.sleeps = <<>>
        /\ (lastLoop.stage = "image") => (pc = "Failed")
  /\ (RetryLoopRunning /\ ~opts.key) => (attempt = 1 /\ sleeps = <<>>)

\* the stages whose calls go to a remote provider
ProviderStages == {"image", "video", "rig"}

\* C15: every outbound provider call of a run is preceded by an admission of
\* the rate limiter: once a stage has called its provider, the limiter has
\* recorded an admission.
C15_AdmissionBeforeCall ==
  (calls \cap ProviderStages # {}) => (\E p \in DOMAIN admitted : admitted[p] # <<>>)

\* the calls of animateSprite whose provider attempts all failed
VideoExhausted == {i \in 1..Len(videoLog) : videoLog[i] \in {"exhausted", "exhausted_nowrite"}}

\* the calls of animateSprite that returned a result
VideoReturned == {i \in 1..Len(videoLog) : videoLog[i] \in {"ok", "exhausted"}}

\* C11 as stated: when the image stage succeeded and every attempt failed for
\* at least one requested kind, the run is not Failed and the video result
\* list is strictly shorter than the list of requested kinds.
C11_VideoListShorter ==
  (VideoStageOver /\ VideoExhausted # {}) =>
    (pc # "Failed" /\ Len(videoResults) < Len(animations))

\* C11 amended: when the image stage succeeded and every attempt failed for at
\* least one requested kind, the video stage does not fail the run, which goes
\* on to the next stage, and the kind keeps an entry in the result list, the
\* placeholder video, unless writing that file rejected: the list has one
\* entry for every call of animateSprite that returned.
C11_VideoFailureKeepsEntry ==
  /\ (pc \in VideoStagePositions) => (failedAt = "none")
  /\ (VideoStageOver /\ VideoExhausted # {}) =>
        /\ failedAt \notin {"image", "video"}
        /\ Len(videoLog) = Len(animations)
        /\ \A i \in VideoExhausted :
              /\ (videoLog[i] = "exhausted") <=> (i \notin videoThrown)
              /\ (videoLog[i] = "exhausted") => (files[animations[i]] # "none")
        /\ Len(videoResults) = Cardinality(VideoReturned)
        /\ [i \in 1..Len(videoResults) |-> videoResults[i].animationType]
             = KeptKinds(Len(animations))

\* every attempt failed for every requested kind and the list is still full
C11_Witness ==
  /\ pc = "ExportDone"
  /\ Len(animations) = MaxAnims
  /\ VideoExhausted = 1..MaxAnims
  /\ Len(videoResults) = MaxAnims
  /\ "video" \in calls

(***************************************************************************)
(* Properties of the batch coordinator (checked under SpecBatch).          *)
(***************************************************************************)
ItemRunning(i) == ipc[i] \notin {"pending", "ok", "failed"}

ItemsWhere(P(_)) == {i \in DOMAIN ipc : P(i)}

ItemOk(i) == ipc[i] = "ok"

ItemFailed(i) == ipc[i] = "failed"

\* C4: when runBatchGeneration resolves with continueOnError = true, the report
\* has one entry per input item in input order, total = number of items =
\* successful + failed, a failure entry with an error message for every item
\* whose run failed and a success entry with the result for every other item.
C4_BatchReportComplete ==
  (bpc = "resolved" /\ bcfg.continueOnError) =>
    LET n == Len(characters) IN
      /\ report.total = n
      /\ Len(report.results) = n
      /\ report.successful + report.failed = n
      /\ report.successful = Cardinality(ItemsWhere(ItemOk))
      /\ report.failed = Cardinality(ItemsWhere(ItemFailed))
      /\ \A k \in 1..Len(report.results) :
           LET e == report.results[k] IN
             /\ e.idx = characters[k]
             /\ ItemFailed(k) => (~e.success /\ e.error # "" /\ e.result = "")
             /\ ~ItemFailed(k) => (e.success /\ e.result = "PipelineResult" /\ ItemOk(k))

C4_Witness ==
  /\ bpc = "resolved" /\ bcfg.continueOnError
  /\ Len(characters) = 3 /\ bcfg.concurrency = 2
  /\ ipc = <<"ok", "failed", "ok">>
  /\ report.results[2].error = "image"
  /\ report.total = 3 /\ report.successful = 2 /\ report.failed = 1

\* the chunk an item belongs to when the list is cut into runs of c items
ChunkNo(i, c) == ((i - 1) \div c) + 1

\* C5: with concurrency c the items are cut into consecutive chunks of c items
\* (the last may be smaller), each item is in exactly one chunk, at most c runs
\* are in flight, and no item of a chunk starts before every item of the
\* chunks before it has finished.
C5_ChunkedConcurrency ==
  LET c == bcfg.concurrency
      n == Len(characters)
  IN /\ (bpc \notin {"start", "idle"} /\ rejectedBy # "mkdir") =>
          /\ \A j \in 1..Len(chunks) :
               /\ Len(chunks[j]) \in 1..c
               /\ (j < Len(chunks)) => (Len(chunks[j]) = c)
               /\ \A k \in 1..Len(chunks[j]) : chunks[j][k] = characters[(j - 1) * c + k]
          /\ \A i \in 1..n :
               Cardinality({jk \in {<<j, k>> : j \in 1..Len(chunks), k \in 1..c} :
                              jk[2] <= Len(chunks[jk[1]]) /\ chunks[jk[1]][jk[2]] = characters[i]}) = 1
     /\ Cardinality(ItemsWhere(ItemRunning)) <= c
     /\ \A i, j \in 1..n :
          (ChunkNo(i, c) < ChunkNo(j, c) /\ ipc[j] # "pending") => ItemSettled(ipc[i])

C5_Witness ==
  /\ Len(characters) = 3 /\ bcfg.concurrency = 2
  /\ ipc[1] = "failed" /\ ipc[2] = "ok" /\ ItemRunning(3)
  /\ Len(chunks) = 2

\* C6: with continueOnError = true a failed run is recorded as a failed entry,
\* never rejects the batch and every item is still processed; with
\* continueOnError = false the failure rejects runBatchGeneration and no item
\* of a later chunk is ever started.
C6_ContinueOnError ==
  LET c == bcfg.concurrency
      n == Len(characters)
  IN /\ bcfg.continueOnError =>
          /\ rejectedBy # "item"
          /\ (bpc \in {"report", "resolved"} \/ rejectedBy = "report") =>
                /\ \A i \in 1..n : ItemSettled(ipc[i])
                /\ \A i \in 1..n : ItemFailed(i) =>
                      \E k \in 1..Len(results) : results[k].idx = i /\ ~results[k].success
     /\ (~bcfg.continueOnError /\ \E i \in 1..n : ItemFailed(i)) =>
          /\ bpc = "rejected" /\ rejectedBy = "item"
          /\ \A i, j \in 1..n :
               (ItemFailed(i) /\ ChunkNo(i, c) < ChunkNo(j, c)) => (ipc[j] = "pending")

C6_Witness ==
  /\ ~bcfg.continueOnError
  /\ Len(characters) = 3 /\ bcfg.concurrency = 2
  /\ ipc = <<"failed", "ok", "pending">>
  /\ bpc = "rejected"

(***************************************************************************)
(* Properties of the rate limiter (checked under SpecLimiter).             *)
(***************************************************************************)
YoungerThanWindow(times, t) == {i \in 1..Len(times) : t - times[i] < WindowMs}

\* C3: for every provider with limit L and window W, under every interleaving
\* of acquire calls, at no instant more than L admissions are younger than W
\* (in the stored queue and among all admissions ever made), and the
\* (i+L)-th admission comes at least W after the i-th.
C3_SlidingWindowLimit ==
  \A p \in DOMAIN RATE_LIMITS :
    /\ Cardinality(YoungerThanWindow(admitted[p], now)) <= RATE_LIMITS[p]
    /\ Cardinality(YoungerThanWindow(queues[p], now)) <= RATE_LIMITS[p]
    /\ \A i \in 1..Len(admitted[p]) :
         (i + RATE_LIMITS[p] <= Len(admitted[p])) =>
           (admitted[p][i + RATE_LIMITS[p]] - admitted[p][i] >= WindowMs)

\* two callers competed for the last free slot of tripo: one took it, the other
\* was put to sleep and was admitted a full window later
C3_Witness ==
  /\ Len(admitted["tripo"]) > LimitTripo
  /\ admitted["tripo"][LimitTripo + 1] - admitted["tripo"][1] = WindowMs
  /\ \E s \in BagToSet(sleepers) : s.provider = "tripo"

\* the place of a position of the run in the order image, video, mesh+rig,
\* export, metadata
StageRank(position) ==
  CASE position = "start" -> 0
    [] position = "image" -> 1
    [] position \in {"video_setup", "video_attempt"} -> 2
    [] position \in {"rig_mkdir", "rig_task", "rig_placeholder"} -> 3
    [] position = "export" -> 4
    [] position = "meta" -> 5
    [] OTHER -> 6

\* the stages whose provider or writer may have been called when the run is at
\* a position
StagesUpTo(position) ==
  {st \in {"image", "video", "rig", "export"} :
     StageRank(StageEntry(st)) <= StageRank(position)}

\* C18: a run goes through its stages in the order image, video, mesh+rig,
\* export and never back; the run is at one position at a time; mesh+rig is
\* entered only when createAnimationBatch has gone through every kind; no
\* stage has acted before the run has reached it; and the metadata is written
\* from the last position only, after which the run is over.
C18_StagesInOrder ==
  /\ [][StageRank(pc') >= StageRank(pc)]_vars
  /\ [][(StageRank(pc) <= 2 /\ StageRank(pc') \in 3..5)
          => (cfg.skipAnimation \/ animIdx' > Len(animations))]_vars
  /\ [][(metaWrites' # metaWrites) => (pc = "meta" /\ pc' = "ExportDone")]_vars
  /\ [](calls \subseteq StagesUpTo(pc))
  /\ [](StageRank(pc) <= 5 => metaWrites = 0)

\* a run of the four stages over two kinds, each stage having called its provider
C18_Witness ==
  /\ pc = "ExportDone"
  /\ calls = {"image", "video", "rig", "export"}
  /\ Len(videoResults) = 2
  /\ metaWrites = 1

\* waitForTask is polling the status of a submitted task
Polling == pc = "rig_task" /\ IsWaitStep(rstep)

\* C19: while waitForTask polls a task, fewer than maxPollAttempts statuses
\* have been read before each poll, so at most maxPollAttempts polls are made
\* and the polling ends; a poll either reads a non-terminal status and the
\* same task is polled again after a sleep of pollInterval, or ends the
\* polling: with success the next step of generateAndRig3DModel runs, with
\* failed (or a failed request) the error is raised, and the poll that reads
\* the maxPollAttempts-th non-terminal status raises the timeout. No timeout
\* is raised earlier.
C19_PollingBounded ==
  /\ [](Polling => polls < opts.maxPollAttempts)
  /\ [](~Polling => polls = 0)
  /\ [](/\ Len(pollSleeps) = polls
        /\ \A i \in 1..Len(pollSleeps) : pollSleeps[i] = PollInterval)
  /\ [][Polling =>
          \/ /\ polls' = polls + 1
             /\ polls' < opts.maxPollAttempts
             /\ pc' = pc /\ rstep' = rstep /\ rigFailure' = rigFailure
          \/ /\ polls' = 0
             /\ pc' = pc /\ rstep' = RigSteps[StepIndex(rstep) + 1]
             /\ rigFailure' = rigFailure
          \/ /\ polls' = 0
             /\ pc' = "rig_placeholder"
             /\ rigFailure' \in {"task_failed", "poll_error"}
          \/ /\ polls' = 0
             /\ pc' = "rig_placeholder"
             /\ rigFailure' = "timeout"
             /\ polls + 1 = opts.maxPollAttempts]_vars
  /\ [][(rigFailure' = "timeout" /\ rigFailure # "timeout")
          => (Polling /\ polls + 1 = opts.maxPollAttempts)]_vars

\* the polling of the model task returned on success and the polling of the rig
\* task has timed out
C19_Witness ==
  /\ rigFailure = "timeout"
  /\ files["base"] = "real"
  /\ pc = "rig_placeholder"

\* C20: the first error of the provider steps of the mesh+rig stage, a polling
\* timeout included, is followed by another attempt of the steps (as under
\* any retry policy that allows a second attempt), not by the fallback to the
\* placeholder model.
C20_MeshErrorRetried ==
  [][(pc = "rig_task" /\ rigFailure = "none" /\ rigFailure' # "none")
       => pc' = "rig_task"]_vars

\* C17: getStatus(provider) leaves the limiter as it was, under every
\* interleaving with acquire, and answers used = the number of admissions
\* younger than the window and limit = the configured limit of the provider:
\* after k admissions inside one window used = k; for a provider without a
\* configured limit used = 0.
C17_GetStatusPure ==
  /\ [][(status' # NoStatus) =>
          (queues' = queues /\ sleepers' = sleepers /\ admitted' = admitted)]_vars
  /\ [](status # NoStatus =>
          IF HasLimits(status.provider)
            THEN /\ status.used = Cardinality(YoungerThanWindow(admitted[status.provider], now))
                 /\ status.limit = RATE_LIMITS[status.provider]
                 /\ (\A i \in 1..Len(admitted[status.provider]) :
                        now - admitted[status.provider][i] < WindowMs)
                      => (status.used = Len(admitted[status.provider]))
            ELSE status.used = 0 /\ status.limit = Infinity)

\* getStatus is asked about tripo after two admissions in the same window, and
\* about runway while its queue still holds an entry that has left the window
C17_Witness ==
  /\ status.provider = "tripo"
  /\ status.used = 2
  /\ Len(admitted["tripo"]) = 2
  /\ queues["runway"] # <<>>
  /\ ValidQueue(queues["runway"], now) = <<>>

\* C14: with finitely many calls and time advancing, every acquire call for a
\* provider with a limit of at least 1 is admitted in the end, so from some
\* point on no call is asleep; and a call for a provider without a configured
\* limit never waits.
C14_AcquireEventuallyAdmitted ==
  /\ <>[](sleepers = EmptyBag)
  /\ [](\A s \in BagToSet(sleepers) : HasLimits(s.provider))

\* calls were still asleep when the last call was made, and all of them have
\* been admitted since
C14_Witness ==
  /\ now > MaxTime + WindowMs
  /\ sleepers = EmptyBag
  /\ Len(admitted["runway"]) >= NumCallers

(***************************************************************************)
(* Further properties of the pipeline (checked under SpecPipe).            *)
(***************************************************************************)

\* C21: a result returned by a stage whose provider attempts were used up (the
\* placeholder video of animateSprite, the placeholder model returned by the
\* catch block of generateAndRig3DModel) carries a provider field with the
\* value "placeholder".
C21_PlaceholderTagged ==
  /\ (lastLoop.stage = "video" /\ lastLoop.outcome = "placeholder")
       => /\ "provider" \in DOMAIN videoResults[Len(videoResults)]
          /\ videoResults[Len(videoResults)].provider = "placeholder"
  /\ (rigFailure # "none" /\ riggingResult # EmptyRigging)
       => /\ "provider" \in DOMAIN riggingResult
          /\ riggingResult.provider = "placeholder"

\* C22: the video result list never has more entries than there are distinct
\* kinds in the requested animation list.
C22_VideoCountWithinKinds ==
  Len(videoResults) <= Cardinality(Range(animations))

(***************************************************************************)
(* Further properties of the batch coordinator (checked under SpecBatch).  *)
(***************************************************************************)

\* C23: when runBatchGeneration has resolved, or has rejected because an item
\* failed with continueOnError false, batch-report.json has been written with
\* the counts and the entries.
C23_ReportAlwaysPersisted ==
  (bpc = "resolved" \/ (bpc = "rejected" /\ rejectedBy = "item"))
    => (report # NoReport)

(***************************************************************************)
(* Properties of runBatchGeneration for any configuration and options      *)
(* (checked under SpecBatchAny).                                           *)
(***************************************************************************)

\* C24: for a configuration that validateBatchConfig refuses, runBatchGeneration
\* starts no run (no output directory of an item, no provider call, no retry)
\* and ends rejected.
C24_MalformedRejectedAtOnce ==
  ~validateBatchConfig(shape)
    => /\ bpc \in {"start", "rejected"}
       /\ \A i \in DOMAIN ipc : ipc[i] \in {"pending", "threw"}

(***************************************************************************)
(* Properties of the cost estimators (checked under SpecEstimate).         *)
(***************************************************************************)

\* the price of one image, of one second of video and of one rigged model, in
\* thousandths of a dollar
ImagePrice(provider, quality) ==
  CASE provider = "openai" /\ quality = "standard" -> 40
    [] provider = "openai" /\ quality = "hd" -> 80
    [] provider = "stability" -> 25
    [] provider = "pixellab" -> 20

VideoPricePerSecond(provider) ==
  CASE provider = "veo" -> 50 [] provider = "runway" -> 100 [] provider = "placeholder" -> 0

RiggingPrice(provider) ==
  CASE provider = "tripo" -> 250 [] provider = "placeholder" -> 0

\* C25: the total of a single-run estimate is the image price plus price per
\* second x seconds per animation x number of animations plus the rigging
\* price; the total of a batch estimate is the single-run total x the item
\* count; and a second call with the same arguments returns the same value.
C25_CostEstimate ==
  /\ [](estimate # NoEstimate =>
          LET o == estimate.options
              single == ImagePrice(o.imageProvider, o.imageQuality)
                          + VideoPricePerSecond(o.videoProvider) * o.animationDuration
                              * o.animationCount
                          + RiggingPrice(o.riggingProvider)
          IN /\ estimate.perCharacter.total = single
             /\ estimate.perCharacter.total
                  = estimate.perCharacter.imageGeneration.estimatedCost
                      + estimate.perCharacter.videoAnimation.estimatedCost
                      + estimate.perCharacter.rigging3D.estimatedCost
             /\ estimate.total = single * estimate.characterCount)
  /\ [][estimate # NoEstimate =>
          /\ estimate'.total = estimate.total
          /\ estimate'.perCharacter = estimate.perCharacter]_vars

\* the estimate for openai standard, 2 animations of 4 s with veo, and tripo,
\* asked a second time: 0.04 + 8 x 0.05 + 0.25 = 0.69
C25_Witness ==
  /\ estimate # NoEstimate
  /\ estimate.fn = "estimatePipelineCost"
  /\ estimate.nth = 2
  /\ estimate.options = [imageProvider |-> "openai", videoProvider |-> "veo",
                         riggingProvider |-> "tripo", animationCount |-> 2,
                         animationDuration |-> 4, imageQuality |-> "standard"]
  /\ estimate.total = 690

(***************************************************************************)
(* Further properties of the pipeline (checked under SpecPipe), continued. *)
(***************************************************************************)

\* C26: a run with skipRigging that has returned has called neither the mesh
\* provider nor the export step, has written no model or preview file, has
\* written its metadata, and the export field of its result is empty.
C26_SkippedExportEmpty ==
  (cfg.skipRigging /\ pc = "ExportDone")
    => /\ "rig" \notin calls /\ "export" \notin calls
       /\ files["base"] = "none" /\ files["rigged"] = "none" /\ files["preview"] = "none"
       /\ metaWrites = 1
       /\ riggingResult = EmptyRigging
       /\ PipelineResultExport = EmptyExport

(***************************************************************************)
(* Properties of the output directories of a batch (checked under          *)
(* SpecNaming).                                                            *)
(***************************************************************************)

\* C27: two items of a chunk whose character names differ never write the same
\* path.
C27_DistinctNamesDistinctPaths ==
  (/\ naming.paths[1] # NoPath /\ naming.paths[2] # NoPath
   /\ CharName(naming.items[1]) # CharName(naming.items[2]))
    => naming.paths[1] # naming.paths[2]

(***************************************************************************)
(* Termination of runBatchGeneration (checked under SpecBatchAny) and of   *)
(* its runs (checked under SpecBatchLive).                                 *)
(***************************************************************************)

\* C28: runBatchGeneration resolves or rejects, whatever the concurrency.
C28_BatchTerminates == <>(bpc \in {"resolved", "rejected"})

\* C29: every run that has started reaches its own end, with or without a
\* rejection of runBatchGeneration in between, and a run that has started is
\* never taken back.
C29_StartedRunsFinish ==
  /\ <>[](\A i \in DOMAIN ipc : ipc[i] \in {"pending", "threw", "ok", "failed"})
  /\ [][\A i \in DOMAIN ipc :
          (ipc[i] \notin {"pending", "threw"}) => (ipc'[i] \notin {"pending", "threw"})]_vars

\* runBatchGeneration was rejected by the failure of one run, and a second run
\* of the chunk has failed after that; every run that was started is over
C29_Witness ==
  /\ bpc = "rejected" /\ rejectedBy = "item"
  /\ failed >= 2
  /\ \A i \in DOMAIN ipc : ipc[i] \in {"pending", "ok", "failed"}

(***************************************************************************)
(* The result of the mesh+rig stage (checked under SpecPipe).              *)
(***************************************************************************)

\* the two model files of a returned mesh+rig result have the same origin
RigFilesNotMixed ==
  (riggingResult # EmptyRigging)
    => \/ files["base"] = "real" /\ files["rigged"] = "real"
       \/ files["base"] = "placeholder" /\ files["rigged"] = "placeholder"

\* C30: a returned mesh+rig result is never mixed (both model files from the
\* provider or both placeholders), and after a fallback, also one that follows
\* the download of a real base model, both files hold placeholder content and
\* the result reports zero bones.
C30_RigResultNotMixed ==
  /\ RigFilesNotMixed
  /\ (riggingResult # EmptyRigging /\ rigFailure # "none")
       => /\ files["base"] = "placeholder" /\ files["rigged"] = "placeholder"
          /\ riggingResult.boneCount = 0

====
